---- MODULE Spec2Model ----
(***************************************************************************)
(* Model of assets/global.js: the cart client of the theme.  Seven async   *)
(* functions, each a thin binding to one cart endpoint of the platform.    *)
(*                                                                         *)
(* JavaScript values are modelled as tagged tuples:                        *)
(*   <<"null">>, <<"num", n>>, <<"str", s>>, <<"obj", o>>                   *)
(* a string s is a sequence of characters (one-character TLA+ strings, or  *)
(* a token such as "U+D800" standing for one UTF-16 code unit), and an     *)
(* object o is the sequence of its own enumerable <<key, value>> entries   *)
(* in property order (integer-like keys ascending, then the other keys in  *)
(* insertion order), keys distinct.                                        *)
(***************************************************************************)
EXTENDS Integers, Sequences, FiniteSets, TLC

VARIABLES pc, call, reqs, result, console, cart

vars == <<pc, call, reqs, result, console, cart>>

\* Bounds of the model.
MaxInv == 2
MaxStrLen == 2

(***************************************************************************)
(* JavaScript values                                                       *)
(***************************************************************************)
JNull == <<"null">>
JNum(n) == <<"num", n>>
JStr(s) == <<"str", s>>
JObj(o) == <<"obj", o>>
JArr(a) == <<"arr", a>>
JBool(b) == <<"bool", b>>

\* ToBoolean, as the && of a spread argument applies it.
Truthy(v) ==
  CASE v[1] = "null" -> FALSE
    [] v[1] = "bool" -> v[2]
    [] v[1] = "num" -> v[2] # 0
    [] v[1] = "str" -> Len(v[2]) > 0
    [] OTHER -> TRUE

DigitChars == <<"0", "1", "2", "3", "4", "5", "6", "7", "8", "9">>

IsDigit(c) == \E d \in 1..10 : DigitChars[d] = c

DigitVal(c) == (CHOOSE d \in 1..10 : DigitChars[d] = c) - 1

\* A canonical array index: the keys an object enumerates first, ascending.
IsIndex(k) ==
  /\ Len(k) > 0
  /\ \A n \in 1..Len(k) : IsDigit(k[n])
  /\ (Len(k) > 1 => k[1] # "0")

RECURSIVE KeyNum(_)
KeyNum(k) ==
  IF Len(k) = 0 THEN 0
  ELSE 10 * KeyNum(SubSeq(k, 1, Len(k) - 1)) + DigitVal(k[Len(k)])

Keys(o) == [n \in 1..Len(o) |-> o[n][1]]

HasKey(o, k) == \E n \in 1..Len(o) : o[n][1] = k

Get(o, k) == o[CHOOSE n \in 1..Len(o) : o[n][1] = k][2]

\* Where a new key goes in property order.
InsertAt(o, k) ==
  IF IsIndex(k)
  THEN 1 + Cardinality({n \in 1..Len(o) : IsIndex(o[n][1]) /\ KeyNum(o[n][1]) < KeyNum(k)})
  ELSE Len(o) + 1

\* o[k] = v
Put(o, k, v) ==
  IF HasKey(o, k)
  THEN [n \in 1..Len(o) |-> IF o[n][1] = k THEN <<k, v>> ELSE o[n]]
  ELSE LET p == InsertAt(o, k)
       IN SubSeq(o, 1, p - 1) \o <<(<<k, v>>)>> \o SubSeq(o, p, Len(o))

\* Object.entries(o)
Entries(o) == o

\* Object.fromEntries(es)
RECURSIVE FromEntries(_)
FromEntries(es) ==
  IF Len(es) = 0 THEN <<>>
  ELSE LET e == es[Len(es)]
       IN Put(FromEntries(SubSeq(es, 1, Len(es) - 1)), e[1], e[2])

\* { ...o, ...v }: a falsy spread argument contributes no property.
RECURSIVE Spread(_, _)
Spread(o, v) ==
  IF v[1] # "obj" \/ Len(v[2]) = 0 THEN o
  ELSE LET es == v[2]
           e == es[Len(es)]
       IN Put(Spread(o, JObj(SubSeq(es, 1, Len(es) - 1))), e[1], e[2])

\* a && b
And(a, b) == IF Truthy(a) THEN b ELSE a

(***************************************************************************)
(* encodeURIComponent                                                      *)
(***************************************************************************)
LoneSurrogate == "U+D800"

Unreserved ==
  {"a", "b", "c", "d", "e", "f", "g", "h", "i", "j", "k", "l", "m", "n", "o",
   "p", "q", "r", "s", "t", "u", "v", "w", "x", "y", "z",
   "0", "1", "2", "3", "4", "5", "6", "7", "8", "9",
   "-", "_", ".", "!", "~", "*", "'", "(", ")"}

\* The UTF-8 escape of the characters the model uses that are not unreserved.
EscapeOf(c) ==
  CASE c = " " -> <<"%", "2", "0">>
    [] c = "%" -> <<"%", "2", "5">>
    [] c = "&" -> <<"%", "2", "6">>
    [] c = "=" -> <<"%", "3", "D">>
    [] c = ":" -> <<"%", "3", "A">>

\* encodeURI in place of encodeURIComponent: "&", "=" and ":" stay as they are.
EncodeCharURI(c) == IF c \in Unreserved \cup {"&", "=", ":"} THEN <<c>> ELSE EscapeOf(c)

EncodeChar(c) == IF c \in Unreserved THEN <<c>> ELSE EscapeOf(c)

\* encodeURIComponent throws URIError on a surrogate that is not part of a pair.
EncodeThrows(s) == \E n \in 1..Len(s) : s[n] = LoneSurrogate

RECURSIVE encodeURIComponent(_)
encodeURIComponent(s) ==
  IF Len(s) = 0 THEN <<>>
  ELSE encodeURIComponent(SubSeq(s, 1, Len(s) - 1)) \o EncodeChar(s[Len(s)])

\* ([k, v]) => [encodeURIComponent(k), encodeURIComponent(v)], mapped over the entries
EncodeEntries(es) ==
  [n \in 1..Len(es) |->
     <<encodeURIComponent(es[n][1]), JStr(encodeURIComponent(es[n][2][2]))>>]

EntriesThrow(es) ==
  \E n \in 1..Len(es) : EncodeThrows(es[n][1]) \/ EncodeThrows(es[n][2][2])

(***************************************************************************)
(* Request payloads                                                        *)
(***************************************************************************)
\* The position-keyed branch keyed by the position of the entry, not by its key.
UpdatesPayloadByPosition(updates, useLineNumbers) ==
  IF useLineNumbers
  THEN <<(<<(<<"u", "p", "d", "a", "t", "e", "s">>),
            JObj(FromEntries([n \in 1..Len(Entries(updates)) |->
                   <<(<<DigitChars[n + 1]>>), Entries(updates)[n][2]>>]))>>)>>
  ELSE <<(<<(<<"u", "p", "d", "a", "t", "e", "s">>), JObj(updates)>>)>>

\* updateCart, lines 40-45
UpdatesPayload(updates, useLineNumbers) ==
  IF useLineNumbers
  THEN <<(<<(<<"u", "p", "d", "a", "t", "e", "s">>),
            JObj(FromEntries([n \in 1..Len(Entries(updates)) |->
                   <<Entries(updates)[n][1], Entries(updates)[n][2]>>]))>>)>>
  ELSE <<(<<(<<"u", "p", "d", "a", "t", "e", "s">>), JObj(updates)>>)>>

\* updateCart, lines 47-51
UpdateNotePart(note) ==
  And(JStr(note),
      JObj(<<(<<(<<"n", "o", "t", "e">>), JStr(encodeURIComponent(note))>>)>>))

UpdateAttributesPart(attributes) ==
  And(JBool(Len(Keys(attributes)) > 0),
      JObj(<<(<<(<<"a", "t", "t", "r", "i", "b", "u", "t", "e", "s">>),
                JObj(FromEntries(EncodeEntries(Entries(attributes))))>>)>>))

UpdateRequestData(updates, useLineNumbers, note, attributes) ==
  Spread(Spread(Spread(<<>>, JObj(UpdatesPayload(updates, useLineNumbers))),
                UpdateNotePart(note)),
         UpdateAttributesPart(attributes))

UpdateThrows(note, attributes) ==
  \/ (Len(note) > 0 /\ EncodeThrows(note))
  \/ (Len(Keys(attributes)) > 0 /\ EntriesThrow(Entries(attributes)))

\* The two branches of the locator exchanged.
ChangeLocatorSwapped(lineOrId, useLine) ==
  IF useLine
  THEN JObj(<<(<<(<<"i", "d">>), lineOrId>>)>>)
  ELSE JObj(<<(<<(<<"l", "i", "n", "e">>), lineOrId>>)>>)

\* changeCartItem, lines 84-89
ChangeLocatorPart(lineOrId, useLine) ==
  IF useLine
  THEN JObj(<<(<<(<<"l", "i", "n", "e">>), lineOrId>>)>>)
  ELSE JObj(<<(<<(<<"i", "d">>), lineOrId>>)>>)

ChangePropertiesPart(properties) ==
  And(JBool(Len(Keys(properties)) > 0),
      JObj(<<(<<(<<"p", "r", "o", "p", "e", "r", "t", "i", "e", "s">>),
                JObj(FromEntries(EncodeEntries(Entries(properties))))>>)>>))

\* selling_plan: sellingPlan, without the guard.
ChangeSellingPlanAlways(sellingPlan) ==
  JObj(<<(<<(<<"s", "e", "l", "l", "i", "n", "g", "_", "p", "l", "a", "n">>),
            sellingPlan>>)>>)

ChangeSellingPlanPart(sellingPlan) ==
  And(sellingPlan,
      JObj(<<(<<(<<"s", "e", "l", "l", "i", "n", "g", "_", "p", "l", "a", "n">>),
                sellingPlan>>)>>))

ChangeRequestData(lineOrId, quantity, useLine, properties, sellingPlan) ==
  Spread(Spread(Put(Spread(<<>>, ChangeLocatorPart(lineOrId, useLine)),
                    <<"q", "u", "a", "n", "t", "i", "t", "y">>, JNum(quantity)),
                ChangePropertiesPart(properties)),
         ChangeSellingPlanPart(sellingPlan))

ChangeThrows(properties) ==
  Len(Keys(properties)) > 0 /\ EntriesThrow(Entries(properties))

\* addToCart, line 123
AddRequestData(items) == <<(<<(<<"i", "t", "e", "m", "s">>), items>>)>>

(***************************************************************************)
(* The seven functions: endpoint, status check, follow-up, catch label     *)
(***************************************************************************)
Invocations == 1..MaxInv

Ops ==
  {"fetchCart", "updateCart", "changeCartItem", "addToCart", "clearCart",
   "prepareShippingRates", "fetchShippingRates"}

\* window.Shopify.routes.root + ...
Endpoint(op) ==
  CASE op = "fetchCart" -> "cart.js"
    [] op = "updateCart" -> "cart/update.js"
    [] op = "changeCartItem" -> "cart/change.js"
    [] op = "addToCart" -> "cart/add.js"
    [] op = "clearCart" -> "cart/clear.js"
    [] op = "prepareShippingRates" -> "cart/prepare_shipping_rates.json"
    [] op = "fetchShippingRates" -> "cart/async_shipping_rates.json"

Method(op) ==
  IF op \in {"fetchCart", "fetchShippingRates"} THEN "GET" ELSE "POST"

\* The functions that hold `if (!response.ok) throw new Error(...)`.
ChecksOk(op) == op # "fetchCart"

\* clearCart returning the parsed answer of cart/clear.js.
RefetchesCartAddOnly(op) == op = "addToCart"

\* addToCart returning the parsed answer of cart/add.js.
RefetchesCartClearOnly(op) == op = "clearCart"

\* updateCart re-fetching the cart as addToCart does.
RefetchesAfterUpdate(op) == op \in {"addToCart", "clearCart", "updateCart"}

\* The functions that end in `return await fetchCart()`.
RefetchesCart(op) == op \in {"addToCart", "clearCart"}

\* response.json() parses the body; response.text() takes it as it is.
ParsesJson(op) == op # "prepareShippingRates"

\* The first argument of console.error in the function's catch block.
ConsoleLabel(op) ==
  CASE op = "fetchCart" -> "Error fetching cart:"
    [] op = "updateCart" -> "Error updating cart:"
    [] op = "changeCartItem" -> "Error changing cart item:"
    [] op = "addToCart" -> "Error adding item to cart:"
    [] op = "clearCart" -> "Error clearing cart:"
    [] op = "prepareShippingRates" -> "Error preparing shipping rates:"
    [] op = "fetchShippingRates" -> "Error fetching shipping rates:"

\* response.ok
Ok(status) == status >= 200 /\ status <= 299

(***************************************************************************)
(* State                                                                   *)
(*   pc[i]      where invocation i is: "idle" (not called), "awaitFetch",  *)
(*              "awaitBody", "settled"                                     *)
(*   call[i]    <<function name, arguments...>>                            *)
(*   reqs[i]    the requests invocation i has issued, each with the        *)
(*              platform's answer once it has one                          *)
(*   result[i]  the promise: <<"pending">>, <<"resolved", v>>,             *)
(*              <<"rejected", e>>                                          *)
(*   console[i] the console.error calls made on behalf of invocation i     *)
(*   cart       the platform's cart (its total quantity)                   *)
(***************************************************************************)
NoResp == [state |-> "none", status |-> 0, parses |-> FALSE, body |-> <<"", 0>>]

Request(method, path, body) ==
  [method |-> method, path |-> path, body |-> body, resp |-> NoResp]

NoBody == <<"none">>

\* The function whose await invocation i is suspended at.
Running(i) == IF Len(reqs[i]) = 2 THEN "fetchCart" ELSE call[i][1]

\* The stack of functions whose catch blocks an error thrown there passes.
Catching(i) ==
  IF Len(reqs[i]) = 2 THEN <<"fetchCart", call[i][1]>> ELSE <<call[i][1]>>

MkError(kind, status, i) ==
  [kind |-> kind, status |-> status, inv |-> i, req |-> Len(reqs[i])]

\* catch (error) { console.error(label, error); throw error; } in each function of
\* the stack, innermost first.
Rethrown(e) == e

Logged(fns, e) == [n \in 1..Len(fns) |-> <<ConsoleLabel(fns[n]), e>>]

Throw(i, fns, e) ==
  /\ console' = [console EXCEPT ![i] = @ \o Logged(fns, e)]
  /\ result' = [result EXCEPT ![i] = <<"rejected", Rethrown(e)>>]
  /\ pc' = [pc EXCEPT ![i] = "settled"]

\* await fetch(root + path, {method, body})
Fetch(i, method, path, body) ==
  /\ reqs' = [reqs EXCEPT ![i] = Append(@, Request(method, path, body))]
  /\ pc' = [pc EXCEPT ![i] = "awaitFetch"]

\* Invocations are numbered in the order they are called.
CanCall(i) == pc[i] = "idle" /\ (IF i = 1 THEN TRUE ELSE pc[i - 1] # "idle")

Init ==
  /\ pc = [i \in Invocations |-> "idle"]
  /\ call = [i \in Invocations |-> <<"none">>]
  /\ reqs = [i \in Invocations |-> <<>>]
  /\ result = [i \in Invocations |-> <<"pending">>]
  /\ console = [i \in Invocations |-> <<>>]
  /\ cart = 0

(***************************************************************************)
(* The functions, each up to its first await                               *)
(***************************************************************************)
fetchCart(i) ==
  /\ CanCall(i)
  /\ call' = [call EXCEPT ![i] = <<"fetchCart">>]
  /\ Fetch(i, "GET", Endpoint("fetchCart"), NoBody)
  /\ UNCHANGED <<result, console, cart>>

updateCart(i, updates, useLineNumbers, note, attributes) ==
  /\ CanCall(i)
  /\ call' = [call EXCEPT ![i] =
               <<"updateCart", updates, useLineNumbers, note, attributes>>]
  /\ IF UpdateThrows(note, attributes)
     THEN /\ Throw(i, <<"updateCart">>, MkError("URIError", 0, i))
          /\ UNCHANGED <<reqs, cart>>
     ELSE /\ Fetch(i, "POST", Endpoint("updateCart"),
                   JObj(UpdateRequestData(updates, useLineNumbers, note, attributes)))
          /\ UNCHANGED <<result, console, cart>>

changeCartItem(i, lineOrId, quantity, useLine, properties, sellingPlan) ==
  /\ CanCall(i)
  /\ call' = [call EXCEPT ![i] =
               <<"changeCartItem", lineOrId, quantity, useLine, properties, sellingPlan>>]
  /\ IF ChangeThrows(properties)
     THEN /\ Throw(i, <<"changeCartItem">>, MkError("URIError", 0, i))
          /\ UNCHANGED <<reqs, cart>>
     ELSE /\ Fetch(i, "POST", Endpoint("changeCartItem"),
                   JObj(ChangeRequestData(lineOrId, quantity, useLine, properties,
                                          sellingPlan)))
          /\ UNCHANGED <<result, console, cart>>

addToCart(i, items) ==
  /\ CanCall(i)
  /\ call' = [call EXCEPT ![i] = <<"addToCart", items>>]
  /\ Fetch(i, "POST", Endpoint("addToCart"), JObj(AddRequestData(items)))
  /\ UNCHANGED <<result, console, cart>>

clearCart(i) ==
  /\ CanCall(i)
  /\ call' = [call EXCEPT ![i] = <<"clearCart">>]
  /\ Fetch(i, "POST", Endpoint("clearCart"), NoBody)
  /\ UNCHANGED <<result, console, cart>>

prepareShippingRates(i) ==
  /\ CanCall(i)
  /\ call' = [call EXCEPT ![i] = <<"prepareShippingRates">>]
  /\ Fetch(i, "POST", Endpoint("prepareShippingRates"), NoBody)
  /\ UNCHANGED <<result, console, cart>>

fetchShippingRates(i) ==
  /\ CanCall(i)
  /\ call' = [call EXCEPT ![i] = <<"fetchShippingRates">>]
  /\ Fetch(i, "GET", Endpoint("fetchShippingRates"), NoBody)
  /\ UNCHANGED <<result, console, cart>>

(***************************************************************************)
(* The platform: it answers an in-flight request of any invocation, in any *)
(* order, with any status, or the request fails in transport.  A success   *)
(* status on a mutation changes the cart.                                  *)
(***************************************************************************)
\* What the platform may answer: <<status, whether the body is well-formed JSON>>.
\* An error status comes with a JSON error description (404) or with an HTML
\* page (500); a success status with JSON or, truncated in transit, without.
Answers == {<<200, TRUE>>, <<200, FALSE>>, <<404, TRUE>>, <<500, FALSE>>}

RECURSIVE TotalQuantity(_)
TotalQuantity(o) ==
  IF Len(o) = 0 THEN 0
  ELSE TotalQuantity(SubSeq(o, 1, Len(o) - 1)) + o[Len(o)][2][2]

CartAfter(r) ==
  CASE r.path = "cart/update.js" ->
         TotalQuantity(Get(r.body[2], <<"u", "p", "d", "a", "t", "e", "s">>)[2])
    [] r.path = "cart/change.js" ->
         Get(r.body[2], <<"q", "u", "a", "n", "t", "i", "t", "y">>)[2]
    [] r.path = "cart/add.js" ->
         cart + Len(Get(r.body[2], <<"i", "t", "e", "m", "s">>)[2])
    [] r.path = "cart/clear.js" -> 0
    [] OTHER -> cart

Answer(r, status, parses) ==
  [state |-> "response", status |-> status, parses |-> parses,
   body |-> IF Ok(status) THEN <<r.path, CartAfter(r)>> ELSE <<"error", status>>]

TransportFailure == [state |-> "failed", status |-> 0, parses |-> FALSE, body |-> <<"", 0>>]

InFlight(i) ==
  /\ pc[i] = "awaitFetch"
  /\ reqs[i][Len(reqs[i])].resp.state = "none"

Serve(i) ==
  /\ InFlight(i)
  /\ LET k == Len(reqs[i])
         r == reqs[i][k]
     IN \/ /\ reqs' = [reqs EXCEPT ![i][k].resp = TransportFailure]
           /\ UNCHANGED cart
        \/ \E a \in Answers :
             /\ reqs' = [reqs EXCEPT ![i][k].resp = Answer(r, a[1], a[2])]
             /\ cart' = IF Ok(a[1]) THEN CartAfter(r) ELSE cart
  /\ UNCHANGED <<pc, call, result, console>>

(***************************************************************************)
(* The functions, resumed                                                  *)
(***************************************************************************)
\* `response` held in one variable shared by the invocations: the continuation
\* reads what the first invocation stored there.
AwaitedShared(i) ==
  IF Len(reqs[1]) > 0 /\ reqs[1][Len(reqs[1])].resp.state # "none"
  THEN reqs[1][Len(reqs[1])].resp
  ELSE reqs[i][Len(reqs[i])].resp

\* The response the suspended await of invocation i resumes with.
Awaited(i) == reqs[i][Len(reqs[i])].resp

\* `await fetch(...)` returns or throws; then the status check, and either the
\* follow-up fetchCart() or the read of the body.
ResumeFetch(i) ==
  /\ pc[i] = "awaitFetch"
  /\ Awaited(i).state # "none"
  /\ LET f == Running(i)
         resp == Awaited(i)
     IN IF resp.state = "failed"
        THEN /\ Throw(i, Catching(i), MkError("TypeError", 0, i))
             /\ UNCHANGED reqs
        ELSE IF ChecksOk(f) /\ ~Ok(resp.status)
        THEN /\ Throw(i, Catching(i), MkError("Error", resp.status, i))
             /\ UNCHANGED reqs
        ELSE IF RefetchesCart(f)
        THEN /\ Fetch(i, "GET", Endpoint("fetchCart"), NoBody)
             /\ UNCHANGED <<result, console>>
        ELSE /\ pc' = [pc EXCEPT ![i] = "awaitBody"]
             /\ UNCHANGED <<reqs, result, console>>
  /\ UNCHANGED <<call, cart>>

\* What the function returns once the body is read.
Returned(f, resp) == resp.body

\* `await response.json()` (or .text()) returns or throws; the value is returned
\* through `return await fetchCart()` where the function is fetchCart called by
\* addToCart or clearCart.
ResumeBody(i) ==
  /\ pc[i] = "awaitBody"
  /\ LET f == Running(i)
         resp == Awaited(i)
     IN IF ParsesJson(f) /\ ~resp.parses
        THEN Throw(i, Catching(i), MkError("SyntaxError", 0, i))
        ELSE /\ result' = [result EXCEPT ![i] = <<"resolved", Returned(f, resp)>>]
             /\ pc' = [pc EXCEPT ![i] = "settled"]
             /\ UNCHANGED console
  /\ UNCHANGED <<call, reqs, cart>>

(***************************************************************************)
(* Arguments                                                               *)
(***************************************************************************)
Str1(a) == <<a>>

GiftWrap == <<"g", "i", "f", "t", " ", "w", "r", "a", "p">>

\* {1: 2, 2: 0}
LineUpdates == <<(<<Str1("1"), JNum(2)>>), (<<Str1("2"), JNum(0)>>)>>

\* {"k:a": 1}
KeyUpdates == <<(<<(<<"k", ":", "a">>), JNum(1)>>)>>

SampleAttributes == <<(<<(<<"a", " ", "b">>), JStr(<<"c", "&", "d">>)>>)>>

UpdateCalls ==
  {<<LineUpdates, TRUE, <<>>, <<>>>>,
   <<KeyUpdates, FALSE, GiftWrap, SampleAttributes>>,
   <<KeyUpdates, FALSE, Str1(LoneSurrogate), <<>>>>}

ChangeCalls ==
  {<<JNum(2), 3, TRUE, <<>>, JNull>>,
   <<JStr(<<"k", ":", "a">>), 0, FALSE, SampleAttributes, JStr(Str1("7"))>>,
   <<JNum(2), 3, TRUE, <<(<<Str1(LoneSurrogate), JStr(Str1("a"))>>)>>, JNull>>}

Item(id, quantity) ==
  JObj(<<(<<(<<"i", "d">>), JNum(id)>>),
         (<<(<<"q", "u", "a", "n", "t", "i", "t", "y">>), JNum(quantity)>>)>>)

AddCalls == {JArr(<<Item(7, 1)>>)}

Invoke(i) ==
  \/ fetchCart(i)
  \/ \E c \in UpdateCalls : updateCart(i, c[1], c[2], c[3], c[4])
  \/ \E c \in ChangeCalls : changeCartItem(i, c[1], c[2], c[3], c[4], c[5])
  \/ \E items \in AddCalls : addToCart(i, items)
  \/ clearCart(i)
  \/ prepareShippingRates(i)
  \/ fetchShippingRates(i)

Next == \E i \in Invocations : Invoke(i) \/ Serve(i) \/ ResumeFetch(i) \/ ResumeBody(i)

Spec == Init /\ [][Next]_vars

(***************************************************************************)
(* The payload builders on their own: one call of updateCart or of         *)
(* changeCartItem, its arguments drawn from bounded sets.                  *)
(***************************************************************************)
Alphabet == {"a", " ", LoneSurrogate}

RECURSIVE StringsUpTo(_)
StringsUpTo(n) ==
  IF n = 0 THEN {<<>>}
  ELSE LET S == StringsUpTo(n - 1)
       IN S \cup {Append(str, c) : str \in S, c \in Alphabet}

SampleStrings == {GiftWrap, <<"5", "%">>, <<"a", "&", "b", "=", "1">>}

Strings == StringsUpTo(MaxStrLen) \cup SampleStrings

\* {"b": " ", "1": "a"}, which enumerates "1" first
TwoAttributes ==
  FromEntries(<<(<<Str1("b"), JStr(Str1(" "))>>), (<<Str1("1"), JStr(Str1("a"))>>)>>)

AttributeMaps ==
  {<<>>, SampleAttributes, TwoAttributes}
    \cup {<<(<<k, JStr(v)>>)>> : k \in StringsUpTo(MaxStrLen), v \in StringsUpTo(MaxStrLen)}

\* {"k:a": 1, "2": 0}, which enumerates "2" first
MixedUpdates == FromEntries(<<(<<(<<"k", ":", "a">>), JNum(1)>>), (<<Str1("2"), JNum(0)>>)>>)

UpdateMaps == {<<>>, LineUpdates, KeyUpdates, MixedUpdates}

Locators == {JNum(2), JStr(<<"k", ":", "a">>)}

Quantities == {0, 3}

SellingPlans == {JNull, JStr(<<>>), JStr(Str1("7")), JNum(7), JNum(0)}

PayloadNext ==
  \/ CanCall(1) /\ \E u \in UpdateMaps, f \in BOOLEAN, n \in Strings, a \in AttributeMaps :
       updateCart(1, u, f, n, a)
  \/ CanCall(1) /\ \E l \in Locators, q \in Quantities, f \in BOOLEAN,
                      p \in AttributeMaps, sp \in SellingPlans :
       changeCartItem(1, l, q, f, p, sp)

PayloadSpec == Init /\ [][PayloadNext]_vars

(***************************************************************************)
(* Fairness: the event loop runs every continuation that is ready, and     *)
(* every issued request is answered or fails in transport.                 *)
(***************************************************************************)
FairSpec ==
  /\ Spec
  /\ \A i \in Invocations :
       WF_vars(Serve(i)) /\ WF_vars(ResumeFetch(i)) /\ WF_vars(ResumeBody(i))

(***************************************************************************)
(* Vocabulary of the properties                                            *)
(***************************************************************************)
Called(i, op) == pc[i] # "idle" /\ call[i][1] = op

Settled(i) == pc[i] = "settled"

Resolved(i) == result[i][1] = "resolved"

Rejected(i) == result[i][1] = "rejected"

\* Invocation i has issued its k-th request and has a response to it.
Answered(i, k) == k <= Len(reqs[i]) /\ reqs[i][k].resp.state = "response"

\* Invocation i has run past the await of its k-th request.
Past(i, k) ==
  /\ k <= Len(reqs[i])
  /\ reqs[i][k].resp.state # "none"
  /\ ~(pc[i] = "awaitFetch" /\ Len(reqs[i]) = k)

\* The payload of the one POST of an updateCart or changeCartItem invocation.
Sent(i) == reqs[i][1].body[2]

UpdatesKey == <<"u", "p", "d", "a", "t", "e", "s">>
NoteKey == <<"n", "o", "t", "e">>
AttributesKey == <<"a", "t", "t", "r", "i", "b", "u", "t", "e", "s">>
LineKey == <<"l", "i", "n", "e">>
IdKey == <<"i", "d">>
QuantityKey == <<"q", "u", "a", "n", "t", "i", "t", "y">>
PropertiesKey == <<"p", "r", "o", "p", "e", "r", "t", "i", "e", "s">>
SellingPlanKey == <<"s", "e", "l", "l", "i", "n", "g", "_", "p", "l", "a", "n">>

HexDigits == {"0", "1", "2", "3", "4", "5", "6", "7", "8", "9", "A", "B", "C", "D", "E", "F"}

\* Every character is unreserved or starts a %XX escape.
RECURSIVE IsPercentEncoded(_)
IsPercentEncoded(e) ==
  IF Len(e) = 0 THEN TRUE
  ELSE IF e[1] = "%"
  THEN /\ Len(e) >= 3
       /\ e[2] \in HexDigits
       /\ e[3] \in HexDigits
       /\ IsPercentEncoded(SubSeq(e, 4, Len(e)))
  ELSE e[1] \in Unreserved /\ IsPercentEncoded(SubSeq(e, 2, Len(e)))

Unescape(h, l) ==
  CASE <<h, l>> = <<"2", "0">> -> " "
    [] <<h, l>> = <<"2", "5">> -> "%"
    [] <<h, l>> = <<"2", "6">> -> "&"
    [] <<h, l>> = <<"3", "D">> -> "="
    [] <<h, l>> = <<"3", "A">> -> ":"
    [] OTHER -> "?"

\* decodeURIComponent, on a percent-encoded string
RECURSIVE Decoded(_)
Decoded(e) ==
  IF Len(e) = 0 THEN <<>>
  ELSE IF e[1] = "%"
  THEN <<Unescape(e[2], e[3])>> \o Decoded(SubSeq(e, 4, Len(e)))
  ELSE <<e[1]>> \o Decoded(SubSeq(e, 2, Len(e)))

\* e is the percent-encoding of the string str.
Encodes(e, str) == IsPercentEncoded(e) /\ Decoded(e) = str

\* The object sent is the map given, every key and every value percent-encoded.
EncodesMap(sent, given) ==
  /\ sent[1] = "obj"
  /\ Len(sent[2]) = Len(given)
  /\ \A n \in 1..Len(given) :
       /\ Encodes(sent[2][n][1], given[n][1])
       /\ sent[2][n][2][1] = "str"
       /\ Encodes(sent[2][n][2][2], given[n][2][2])

(***************************************************************************)
(* Properties of the payloads (PayloadSpec)                                *)
(***************************************************************************)
IssuedUpdate(i) == Called(i, "updateCart") /\ Len(reqs[i]) >= 1

IssuedChange(i) == Called(i, "changeCartItem") /\ Len(reqs[i]) >= 1

NoNullValue(o) == \A n \in 1..Len(o) : o[n][2] # JNull

UpdateOptionalFields(i) ==
  /\ HasKey(Sent(i), UpdatesKey)
  /\ HasKey(Sent(i), NoteKey) <=> Len(call[i][4]) > 0
  /\ HasKey(Sent(i), AttributesKey) <=> Len(call[i][5]) > 0
  /\ NoNullValue(Sent(i))
  /\ (call[i] = <<"updateCart", LineUpdates, TRUE, <<>>, <<>>>>
        => Sent(i) = <<(<<UpdatesKey, JObj(LineUpdates)>>)>>)

\* C4 as claimed: in the payloads of updateCart and changeCartItem an optional
\* field is present iff its argument is non-empty (note, attributes, properties)
\* or non-null (selling_plan), and no key is present with a null value;
\* updateCart({1: 2, 2: 0}, true) sends exactly {updates: {1: 2, 2: 0}}.
C4_OptionalIffNonNull ==
  \A i \in Invocations :
    /\ IssuedUpdate(i) => UpdateOptionalFields(i)
    /\ IssuedChange(i) =>
         /\ HasKey(Sent(i), PropertiesKey) <=> Len(call[i][5]) > 0
         /\ HasKey(Sent(i), SellingPlanKey) <=> call[i][6] # JNull
         /\ NoNullValue(Sent(i))

\* C4 as amended: the same, except that selling_plan is present iff sellingPlan
\* is truthy: neither null, nor the empty string, nor 0.
C4_OptionalIffTruthy ==
  \A i \in Invocations :
    /\ IssuedUpdate(i) => UpdateOptionalFields(i)
    /\ IssuedChange(i) =>
         /\ HasKey(Sent(i), PropertiesKey) <=> Len(call[i][5]) > 0
         /\ HasKey(Sent(i), SellingPlanKey)
              <=> call[i][6] \notin {JNull, JStr(<<>>), JNum(0)}
         /\ NoNullValue(Sent(i))

\* A changeCartItem payload with properties given and an empty-string selling plan.
C4_Witness ==
  \E i \in Invocations :
    /\ IssuedChange(i)
    /\ call[i][6] = JStr(<<>>)
    /\ Len(call[i][5]) > 0
    /\ HasKey(Sent(i), PropertiesKey)
    /\ ~HasKey(Sent(i), SellingPlanKey)

\* C5: a transmitted note, every transmitted attribute key and value and every
\* transmitted property key and value is the percent-encoding of the argument,
\* and the updates map, the locator, the quantity and the selling plan are the
\* arguments as given; the note "gift wrap" is sent as "gift%20wrap".
C5_PercentEncoded ==
  \A i \in Invocations :
    /\ IssuedUpdate(i) =>
         /\ HasKey(Sent(i), NoteKey) =>
              /\ Get(Sent(i), NoteKey)[1] = "str"
              /\ Encodes(Get(Sent(i), NoteKey)[2], call[i][4])
         /\ HasKey(Sent(i), AttributesKey) =>
              EncodesMap(Get(Sent(i), AttributesKey), call[i][5])
         /\ Get(Sent(i), UpdatesKey) = JObj(call[i][2])
         /\ (call[i][4] = GiftWrap =>
               Get(Sent(i), NoteKey) =
                 JStr(<<"g", "i", "f", "t", "%", "2", "0", "w", "r", "a", "p">>))
    /\ IssuedChange(i) =>
         /\ HasKey(Sent(i), PropertiesKey) =>
              EncodesMap(Get(Sent(i), PropertiesKey), call[i][5])
         /\ Get(Sent(i), IF call[i][4] THEN LineKey ELSE IdKey) = call[i][2]
         /\ Get(Sent(i), QuantityKey) = JNum(call[i][3])
         /\ HasKey(Sent(i), SellingPlanKey) =>
              Get(Sent(i), SellingPlanKey) = call[i][6]

\* An updateCart payload carrying the note "gift wrap" and an attribute with
\* reserved characters in its key and in its value.
C5_Witness ==
  \E i \in Invocations :
    /\ IssuedUpdate(i)
    /\ call[i][4] = GiftWrap
    /\ call[i][5] = SampleAttributes
    /\ HasKey(Sent(i), NoteKey)
    /\ HasKey(Sent(i), AttributesKey)

C10_FlagIrrelevant ==
  \A i \in Invocations :
    IssuedUpdate(i) =>
      reqs[i][1].body =
        JObj(UpdateRequestData(call[i][2], ~call[i][3], call[i][4], call[i][5]))

\* An updateCart payload built by the position-keyed branch from a map whose
\* keys are a line number and a line item key.
C10_Witness ==
  \E i \in Invocations :
    /\ IssuedUpdate(i)
    /\ call[i][3]
    /\ call[i][2] = MixedUpdates
    /\ Get(Sent(i), UpdatesKey) = JObj(MixedUpdates)

(***************************************************************************)
(* Properties of the invocations (Spec, FairSpec)                          *)
(***************************************************************************)
SingleRequestOps ==
  {"fetchCart", "updateCart", "changeCartItem", "prepareShippingRates",
   "fetchShippingRates"}

\* The function that issued the k-th request of invocation i.
IssuedBy(i, k) == IF k = 2 THEN "fetchCart" ELSE call[i][1]

\* C1 as claimed: an invocation that got a non-success status in answer to any
\* of its requests rejects with an error carrying that status, and that request
\* is its last.
C1_RejectsWithStatus ==
  \A i \in Invocations : \A k \in 1..2 :
    (Settled(i) /\ Answered(i, k) /\ ~Ok(reqs[i][k].resp.status)) =>
      /\ Rejected(i)
      /\ result[i][2].kind = "Error"
      /\ result[i][2].status = reqs[i][k].resp.status
      /\ Len(reqs[i]) = k

\* C2: addToCart issues POST cart/add.js first; once the add response has come
\* with a success status it issues GET cart.js, never before, and nothing else.
C2_AddThenFetch ==
  \A i \in Invocations :
    Called(i, "addToCart") =>
      /\ Len(reqs[i]) \in {1, 2}
      /\ reqs[i][1].method = "POST"
      /\ reqs[i][1].path = "cart/add.js"
      /\ Len(reqs[i]) = 2 =>
           /\ Answered(i, 1)
           /\ Ok(reqs[i][1].resp.status)
           /\ reqs[i][2].method = "GET"
           /\ reqs[i][2].path = "cart.js"
      /\ (Past(i, 1) /\ Answered(i, 1) /\ Ok(reqs[i][1].resp.status)) =>
           Len(reqs[i]) = 2

\* An addToCart invocation that has settled after its add succeeded.
C2_Witness ==
  \E i \in Invocations :
    /\ Called(i, "addToCart")
    /\ Settled(i)
    /\ Answered(i, 1)
    /\ Ok(reqs[i][1].resp.status)
    /\ Len(reqs[i]) = 2

\* C3: what clearCart resolves to is the body answered to its GET cart.js, not
\* the body answered to cart/clear.js, and it is what a fetchCart invocation
\* resolves to that got the same answer.
C3_ClearReturnsFetch ==
  \A i \in Invocations :
    (Called(i, "clearCart") /\ Resolved(i)) =>
      /\ Len(reqs[i]) = 2
      /\ Ok(reqs[i][1].resp.status)
      /\ reqs[i][2].path = "cart.js"
      /\ result[i][2] = reqs[i][2].resp.body
      /\ \A j \in Invocations :
           (Called(j, "fetchCart") /\ Settled(j) /\ reqs[j][1].resp = reqs[i][2].resp)
             => result[j] = result[i]

\* A clearCart and a fetchCart invocation, both resolved, whose GET cart.js got
\* the same answer.
C3_Witness ==
  \E i, j \in Invocations :
    /\ Called(i, "clearCart")
    /\ Resolved(i)
    /\ Called(j, "fetchCart")
    /\ Resolved(j)
    /\ reqs[j][1].resp = reqs[i][2].resp

\* The k-th request of invocation i failed: in transport, by its status, or,
\* where the function reads the body as JSON, in the parse.
Failed(i, k) ==
  /\ k <= Len(reqs[i])
  /\ \/ reqs[i][k].resp.state = "failed"
     \/ /\ reqs[i][k].resp.state = "response"
        /\ \/ ~Ok(reqs[i][k].resp.status)
           \/ /\ k = Len(reqs[i])
              /\ ParsesJson(IssuedBy(i, k))
              /\ ~reqs[i][k].resp.parses

\* C7 as claimed: an invocation one of whose requests failed (transport, body
\* parse or non-success status) rejects, having logged the diagnostic of its
\* function with the error it rejects with last, and issued nothing after.
C7_LogsAndRethrows ==
  \A i \in Invocations : \A k \in 1..2 :
    (Settled(i) /\ Failed(i, k)) =>
      /\ Rejected(i)
      /\ Len(console[i]) >= 1
      /\ console[i][Len(console[i])] = <<ConsoleLabel(call[i][1]), result[i][2]>>
      /\ \A n \in 1..Len(console[i]) : console[i][n][2] = result[i][2]
      /\ Len(reqs[i]) = k

\* C8 as claimed, its safety part: a settled invocation has resolved or
\* rejected, having issued exactly one request (the five one-request
\* functions) or at most two (addToCart, clearCart).
C8_ExactlyOneRequest ==
  \A i \in Invocations :
    Settled(i) =>
      /\ Resolved(i) \/ Rejected(i)
      /\ call[i][1] \in SingleRequestOps => Len(reqs[i]) = 1
      /\ call[i][1] \notin SingleRequestOps => Len(reqs[i]) \in {1, 2}

\* The requests of invocation i are those of one attempt: no request twice.
RequestCount(i) ==
  /\ call[i][1] \in SingleRequestOps => Len(reqs[i]) <= 1
  /\ Len(reqs[i]) <= 2
  /\ Len(reqs[i]) = 2 => reqs[i][2].path # reqs[i][1].path

SettledOnce(i) ==
  Settled(i) =>
    /\ Resolved(i) \/ Rejected(i)
    /\ Len(reqs[i]) >= 1
         \/ /\ call[i][1] \in {"updateCart", "changeCartItem"}
            /\ Rejected(i)
            /\ result[i][2].kind = "URIError"

\* A step belongs to one invocation, and a settled invocation does not change.
OwnStep ==
  \A i \in Invocations :
    /\ Settled(i) =>
         /\ pc'[i] = pc[i]
         /\ call'[i] = call[i]
         /\ reqs'[i] = reqs[i]
         /\ result'[i] = result[i]
         /\ console'[i] = console[i]
    /\ result[i] # result'[i] =>
         \A j \in Invocations \ {i} :
           /\ pc'[j] = pc[j]
           /\ reqs'[j] = reqs[j]
           /\ result'[j] = result[j]
           /\ console'[j] = console[j]

\* C8 as amended: every invocation that was called settles, once and for good,
\* resolved or rejected, having issued exactly one request (the five
\* one-request functions) or at most two (addToCart, clearCart), never one
\* twice; except that updateCart and changeCartItem reject having issued none
\* when building the payload throws URIError.
C8_SingleShot ==
  /\ [](\A i \in Invocations : (pc[i] # "idle") => RequestCount(i) /\ SettledOnce(i))
  /\ [][OwnStep]_vars
  /\ \A i \in Invocations : (pc[i] # "idle") ~> Settled(i)

\* An updateCart invocation rejected for a note that cannot be encoded, no
\* request issued, beside an invocation that settled after two requests.
C8_Witness ==
  \E i, j \in Invocations :
    /\ Called(i, "updateCart")
    /\ Settled(i)
    /\ Rejected(i)
    /\ Len(reqs[i]) = 0
    /\ Settled(j)
    /\ Len(reqs[j]) = 2

\* The body a call sends with its first request, from its arguments alone.
OwnBody(c) ==
  CASE c[1] = "updateCart" -> JObj(UpdateRequestData(c[2], c[3], c[4], c[5]))
    [] c[1] = "changeCartItem" -> JObj(ChangeRequestData(c[2], c[3], c[4], c[5], c[6]))
    [] c[1] = "addToCart" -> JObj(AddRequestData(c[2]))
    [] OTHER -> NoBody

\* What a settled invocation settled with, from the answers to its own requests.
OwnOutcome(i) ==
  LET k == Len(reqs[i])
  IN IF k = 0
     THEN <<"rejected", [kind |-> "URIError", status |-> 0, inv |-> i, req |-> 0]>>
     ELSE LET r == reqs[i][k].resp
          IN IF r.state = "failed"
             THEN <<"rejected", [kind |-> "TypeError", status |-> 0, inv |-> i, req |-> k]>>
             ELSE IF IssuedBy(i, k) # "fetchCart" /\ ~Ok(r.status)
             THEN <<"rejected", [kind |-> "Error", status |-> r.status, inv |-> i, req |-> k]>>
             ELSE IF IssuedBy(i, k) # "prepareShippingRates" /\ ~r.parses
             THEN <<"rejected", [kind |-> "SyntaxError", status |-> 0, inv |-> i, req |-> k]>>
             ELSE <<"resolved", r.body>>

\* C9: whatever the interleaving, the payload an invocation sends is the one
\* its own arguments give and what it settles with is what the answers to its
\* own requests give.
C9_Independent ==
  \A i \in Invocations :
    /\ Len(reqs[i]) >= 1 => reqs[i][1].body = OwnBody(call[i])
    /\ Len(reqs[i]) = 2 => reqs[i][2].body = NoBody
    /\ Settled(i) => result[i] = OwnOutcome(i)

\* A clearCart invocation whose clear succeeded and which yet resolved to a
\* cart that is not empty: the platform served another invocation's mutation
\* between the clear and the follow-up fetch.
C9_Witness ==
  \E i, j \in Invocations :
    /\ i # j
    /\ Called(i, "clearCart")
    /\ Resolved(i)
    /\ result[i][2][1] = "cart.js"
    /\ result[i][2][2] > 0
    /\ Called(j, "addToCart")
    /\ Settled(j)

====
